---- MODULE Spec2Model ----
(***************************************************************************)
(* Model of ts/util/downloadOnboardingStory.ts: the entry point            *)
(* downloadOnboardingStory, the one-time 'storageService:syncComplete'     *)
(* listener, and the continuation continueDownloadingOnboardingStory cut   *)
(* at its await points.  JavaScript runs each piece between two awaits     *)
(* atomically, so every action below is one such piece.                    *)
(***************************************************************************)
EXTENDS Integers, Sequences, FiniteSets, Bags, TLC

\* ---------------------------------------------------------------- bounds
MaxCalls == 2      \* calls of downloadOnboardingStory
MaxSyncs == 2      \* 'storageService:syncComplete' events
MaxClock == 1      \* largest value Date.now() returns

\* ---------------------------------------------------------------- inputs
\* Values window.i18n.getLocale() may return: one every manifest lists and
\* one no manifest lists.
Locales == {"fr", "de"}

\* Values server.getOnboardingStoryManifest() may resolve to.  The second
\* one has no "en" entry, so the fallback of line 74 is undefined for it.
Manifests ==
  << [version |-> "v1", languages |-> ("en" :> <<"a", "b">>) @@ ("fr" :> <<"c">>)],
     [version |-> "v2", languages |-> ("fr" :> <<"c", "d">>)] >>

IMAGE_JPEG == "image/jpeg"

VARIABLES
  hasViewedOnboardingStory,           \* window.storage 'hasViewedOnboardingStory'
  existingOnboardingStoryMessageIds,  \* <<>> when unset, <<ids>> when set
  server,                             \* window.textsecure.server is initialized
  userLocale,                         \* window.i18n.getLocale()
  listeners,                          \* pending once() listeners on syncComplete
  syncJobs,                           \* runStorageServiceSyncJob() invocations
  syncEvents,                         \* syncComplete events fired so far
  calls,                              \* downloadOnboardingStory() invocations
  cleanupCalls,                       \* findAndDeleteOnboardingStoryIfExists() invocations
  runs,                               \* bag of continuation runs started so far
  db,                                 \* messages persisted by the batcher
  now,                                \* the clock behind Date.now()
  uuidCounter,                        \* UUID.generate() freshness
  messageCounter,                     \* incrementMessageCounter()
  putCount                            \* storage.put('existingOnboardingStoryMessageIds')

vars == << hasViewedOnboardingStory, existingOnboardingStoryMessageIds, server,
           userLocale, listeners, syncJobs, syncEvents, calls, cleanupCalls,
           runs, db, now, uuidCounter, messageCounter, putCount >>

storageVars == << hasViewedOnboardingStory, existingOnboardingStoryMessageIds, putCount >>
envVars == << server, userLocale >>
busVars == << listeners, syncJobs, syncEvents, calls >>
msgVars == << db, uuidCounter, messageCounter >>

Range(s) == { s[i] : i \in DOMAIN s }

\* The bag b with one copy of x replaced by y.
Replace(b, x, y) == (b (-) SetToBag({x})) (+) SetToBag({y})

\* The bag of n copies of x.
Copies(x, n) == IF n = 0 THEN EmptyBag ELSE [e \in {x} |-> n]

\* ------------------------------------------------------------ collaborators

\* findAndDeleteOnboardingStoryIfExists: removes the messages the id-list
\* names, if there is an id-list; idempotent.
FindAndDeleteOnboardingStoryIfExists(messages, idList) ==
  IF idList = <<>> THEN messages
  ELSE { m \in messages : m.id \notin Range(idList[1]) }

Init ==
  /\ hasViewedOnboardingStory \in BOOLEAN
  /\ existingOnboardingStoryMessageIds = <<>>
  /\ server \in BOOLEAN
  /\ userLocale \in Locales
  /\ listeners = 0
  /\ syncJobs = 0
  /\ syncEvents = 0
  /\ calls = 0
  /\ cleanupCalls = 0
  /\ runs = EmptyBag
  /\ db = {}
  /\ now = 0
  /\ uuidCounter = 0
  /\ messageCounter = 0
  /\ putCount = 0

\* ------------------------------------------------------------- entry point

\* Variant: the short circuit of line 29 is missing.
ShortCircuit_Missing(viewed) == FALSE

\* Line 29: the short circuit on the stored flag.
ShortCircuit(viewed) == viewed

\* Variant: the listener is registered twice.
Once_Twice(pending) == pending + 2

\* Variant: a call made while a listener is pending registers none.
Once_Single(pending) == 1

\* Lines 36-39: events.once adds one listener for the event.
Once(pending) == pending + 1

\* downloadOnboardingStory(), lines 24-40.
DownloadOnboardingStory ==
  /\ calls < MaxCalls
  /\ calls' = calls + 1
  /\ IF ShortCircuit(hasViewedOnboardingStory)
       THEN /\ db' = FindAndDeleteOnboardingStoryIfExists(db, existingOnboardingStoryMessageIds)
            /\ cleanupCalls' = cleanupCalls + 1
            /\ UNCHANGED << syncJobs, listeners >>
       ELSE /\ syncJobs' = syncJobs + 1
            /\ listeners' = Once(listeners)
            /\ UNCHANGED << db, cleanupCalls >>
  /\ UNCHANGED << storageVars, envVars, syncEvents, runs, now, uuidCounter, messageCounter >>

\* ------------------------------------------------------------ continuation

\* The locals of one continueDownloadingOnboardingStory() run.  pc is the
\* await the run is suspended at and outcome is how it ended; the flags
\* record what the run has done so far: whether the flag and the id-list
\* were set when it started, whether it called getOnboardingStoryManifest,
\* downloadOnboardingStories, saveNewMessageBatcher.add and storage.put, and
\* whether the batcher wrote one of its messages.
NewRun ==
  [ pc |-> "start", outcome |-> "running",
    idsSetAtStart |-> FALSE, viewedAtStart |-> FALSE,
    fetched |-> FALSE, downloadRequested |-> FALSE,
    handed |-> FALSE, wrote |-> FALSE, put |-> FALSE,
    manifest |-> 0, filenamesDefined |-> FALSE,
    version |-> "", imageFilenames |-> <<>>,
    imageBuffers |-> <<>>, attachments |-> <<>>,
    storyMessages |-> <<>>, saved |-> {} ]

\* The run is over: its locals are gone, what it did stays done.
Ended(run, pc, outcome) ==
  [NewRun EXCEPT !.pc = pc, !.outcome = outcome,
                 !.idsSetAtStart = run.idsSetAtStart,
                 !.viewedAtStart = run.viewedAtStart,
                 !.fetched = run.fetched,
                 !.downloadRequested = run.downloadRequested,
                 !.handed = run.handed, !.wrote = run.wrote, !.put = run.put]

\* Variant: the rejection is caught and logged, and the run goes on.
Abort_Swallow(run, stage) == [run EXCEPT !.outcome = stage]

\* A rejected await or a failed strictAssert is not caught anywhere in the
\* function: the run ends there.
Abort(run, stage) == Ended(run, "failed", stage)

\* Variant: the guard of line 60 is missing.
HasExistingIds_Missing(idList) == FALSE

\* Line 60: the guard on the stored id-list.
HasExistingIds(idList) == idList # <<>>

\* Variant: the flag is not read again at line 47.
StartRun_NoRecheck(viewed, idList, srv) ==
  LET r0 == [NewRun EXCEPT !.idsSetAtStart = (idList # <<>>),
                           !.viewedAtStart = viewed]
  IN  IF ~srv THEN Abort(r0, "assert")
      ELSE IF HasExistingIds(idList) THEN Ended(r0, "done", "hasIds")
      ELSE [r0 EXCEPT !.pc = "awaitManifest", !.fetched = TRUE]

\* Variant: the assertion of line 45 comes after the flag check.
StartRun_AssertLate(viewed, idList, srv) ==
  LET r0 == [NewRun EXCEPT !.idsSetAtStart = (idList # <<>>),
                           !.viewedAtStart = viewed]
  IN  IF viewed THEN Ended(r0, "done", "cleanup")
      ELSE IF ~srv THEN Abort(r0, "assert")
      ELSE IF HasExistingIds(idList) THEN Ended(r0, "done", "hasIds")
      ELSE [r0 EXCEPT !.pc = "awaitManifest", !.fetched = TRUE]

\* Lines 42-67: from the listener call to the first await.
StartRun(viewed, idList, srv) ==
  LET r0 == [NewRun EXCEPT !.idsSetAtStart = (idList # <<>>),
                           !.viewedAtStart = viewed]
  IN  IF ~srv THEN Abort(r0, "assert")
      ELSE IF viewed THEN Ended(r0, "done", "cleanup")
      ELSE IF HasExistingIds(idList) THEN Ended(r0, "done", "hasIds")
      ELSE [r0 EXCEPT !.pc = "awaitManifest", !.fetched = TRUE]

\* Variant: on() instead of once(): the listener stays registered.
AfterTrigger_On(pending) == pending

\* A once() listener is removed when it fires.
AfterTrigger(pending) == 0

\* Whisper.events.trigger('storageService:syncComplete'): every pending
\* listener is called in turn, and each call runs up to its first await.
SyncComplete ==
  /\ syncEvents < MaxSyncs
  /\ syncEvents' = syncEvents + 1
  /\ LET started == StartRun(hasViewedOnboardingStory,
                             existingOnboardingStoryMessageIds, server)
         cleaned == IF started.outcome = "cleanup" THEN listeners ELSE 0
     IN  /\ runs' = runs (+) Copies(started, listeners)
         /\ cleanupCalls' = cleanupCalls + cleaned
         /\ db' = IF cleaned > 0
                    THEN FindAndDeleteOnboardingStoryIfExists(db, existingOnboardingStoryMessageIds)
                    ELSE db
  /\ listeners' = AfterTrigger(listeners)
  /\ UNCHANGED << storageVars, envVars, syncJobs, calls, now, uuidCounter, messageCounter >>

\* Lines 71-74: the locale's list, else the "en" list, else undefined.
ResolveDefined(languages, locale) ==
  locale \in DOMAIN languages \/ "en" \in DOMAIN languages

\* Variant: the "en" list is preferred to the locale's own.
ResolveFilenames_EnFirst(languages, locale) ==
  IF "en" \in DOMAIN languages THEN languages["en"]
  ELSE IF locale \in DOMAIN languages THEN languages[locale]
  ELSE <<>>

ResolveFilenames(languages, locale) ==
  IF locale \in DOMAIN languages THEN languages[locale]
  ELSE IF "en" \in DOMAIN languages THEN languages["en"]
  ELSE <<>>

\* Lines 67-79: the manifest arrives; the download is requested.
ManifestResolve(r) ==
  /\ r.pc = "awaitManifest"
  /\ \E m \in DOMAIN Manifests :
       runs' = Replace(runs, r,
                  [r EXCEPT !.pc = "awaitDownload",
                            !.manifest = m,
                            !.version = Manifests[m].version,
                            !.filenamesDefined = ResolveDefined(Manifests[m].languages, userLocale),
                            !.imageFilenames = ResolveFilenames(Manifests[m].languages, userLocale),
                            !.downloadRequested = TRUE])
  /\ UNCHANGED << storageVars, envVars, busVars, cleanupCalls, msgVars, now >>

\* Line 67 rejects.
ManifestFail(r) ==
  /\ r.pc = "awaitManifest"
  /\ runs' = Replace(runs, r, Abort(r, "manifest"))
  /\ UNCHANGED << storageVars, envVars, busVars, cleanupCalls, msgVars, now >>

\* What downloadOnboardingStories resolves to for one file.
Buffer(version, filename) == [version |-> version, file |-> filename]

\* Lines 76-93: the buffers arrive, in request order; every buffer is
\* handed to processNewAttachment.
DownloadResolve(r) ==
  /\ r.pc = "awaitDownload"
  /\ r.filenamesDefined
  /\ runs' = Replace(runs, r,
                  [r EXCEPT !.pc = "awaitIngest",
                          !.imageBuffers = [i \in DOMAIN r.imageFilenames |->
                                              Buffer(r.version, r.imageFilenames[i])]])
  /\ UNCHANGED << storageVars, envVars, busVars, cleanupCalls, msgVars, now >>

\* Variant: a failed download leaves an empty id-list behind.
DownloadFail_Marks(r) ==
  /\ r.pc = "awaitDownload"
  /\ existingOnboardingStoryMessageIds' = << <<>> >>
  /\ runs' = Replace(runs, r, Abort(r, "download"))
  /\ UNCHANGED << hasViewedOnboardingStory, putCount, envVars, busVars, cleanupCalls,
                  msgVars, now >>

\* Line 76 rejects (always, when the filename list is undefined).
DownloadFail(r) ==
  /\ r.pc = "awaitDownload"
  /\ runs' = Replace(runs, r, Abort(r, "download"))
  /\ UNCHANGED << storageVars, envVars, busVars, cleanupCalls, msgVars, now >>

\* Lines 85-91: the attachment made from one buffer.
ProcessNewAttachment(data) == [contentType |-> IMAGE_JPEG, data |-> data]

\* Lines 83-97: Promise.all of the ingestions resolves; the Signal
\* conversation is requested.
IngestResolve(r) ==
  /\ r.pc = "awaitIngest"
  /\ runs' = Replace(runs, r,
                  [r EXCEPT !.pc = "awaitConversation",
                          !.attachments = [i \in DOMAIN r.imageBuffers |->
                                             ProcessNewAttachment(r.imageBuffers[i])]])
  /\ UNCHANGED << storageVars, envVars, busVars, cleanupCalls, msgVars, now >>

\* One processNewAttachment rejects.
IngestFail(r) ==
  /\ r.pc = "awaitIngest"
  /\ runs' = Replace(runs, r, Abort(r, "ingest"))
  /\ UNCHANGED << storageVars, envVars, busVars, cleanupCalls, msgVars, now >>

\* Variant: the messages are created as already read.
PartialMessage_Read(attachment, index, dateNow, uuid, counter) ==
  [ attachments |-> << attachment >>,
    canReplyToStory |-> FALSE,
    conversationId |-> "signalConversation",
    id |-> uuid,
    readStatus |-> "Read",
    received_at |-> counter,
    received_at_ms |-> dateNow + index,
    seenStatus |-> "Unseen",
    sent_at |-> dateNow + index,
    serverTimestamp |-> dateNow + index,
    sourceUuid |-> "signalUuid",
    timestamp |-> dateNow + index,
    type |-> "story" ]

\* Lines 101-117: the message built at 0-based index `index`, with the
\* clock value Date.now() returned for it.
PartialMessage(attachment, index, dateNow, uuid, counter) ==
  [ attachments |-> << attachment >>,
    canReplyToStory |-> FALSE,
    conversationId |-> "signalConversation",
    id |-> uuid,
    readStatus |-> "Unread",
    received_at |-> counter,
    received_at_ms |-> dateNow + index,
    seenStatus |-> "Unseen",
    sent_at |-> dateNow + index,
    serverTimestamp |-> dateNow + index,
    sourceUuid |-> "signalUuid",
    timestamp |-> dateNow + index,
    type |-> "story" ]

\* The values successive Date.now() calls may return from clock value t.
ClockReads(n, t) ==
  { f \in [1..n -> t..MaxClock] : \A i \in 1..n : \A j \in 1..n : i <= j => f[i] <= f[j] }

\* Lines 96-124: the conversation arrives; the messages are built and each
\* is handed to saveNewMessageBatcher.add.
ConversationResolve(r) ==
  /\ r.pc = "awaitConversation"
  /\ LET n == Len(r.attachments)
     IN  \E reads \in ClockReads(n, now) :
           /\ runs' = Replace(runs, r,
                  [r EXCEPT !.pc = "awaitBatch",
                                   !.handed = TRUE,
                                   !.storyMessages =
                                      [i \in 1..n |->
                                         PartialMessage(r.attachments[i], i - 1, reads[i],
                                                        uuidCounter + i, messageCounter + i)]])
           /\ now' = IF n = 0 THEN now ELSE reads[n]
           /\ uuidCounter' = uuidCounter + n
           /\ messageCounter' = messageCounter + n
  /\ UNCHANGED << storageVars, envVars, busVars, cleanupCalls, db >>

\* The batcher writes one of the handed messages to the database.
BatchPersistOne(r) ==
  /\ r.pc = "awaitBatch"
  /\ \E i \in DOMAIN r.storyMessages \ r.saved :
       /\ db' = db \cup { r.storyMessages[i] }
       /\ runs' = Replace(runs, r, [r EXCEPT !.saved = @ \cup {i}, !.wrote = TRUE])
  /\ UNCHANGED << storageVars, envVars, busVars, cleanupCalls, uuidCounter, messageCounter, now >>

\* Variant: Promise.all of line 122 is not awaited.
BatchResolve_NoAwait(r) ==
  /\ r.pc = "awaitBatch"
  /\ existingOnboardingStoryMessageIds' =
       << [i \in DOMAIN r.storyMessages |-> r.storyMessages[i].id] >>
  /\ putCount' = putCount + 1
  /\ runs' = Replace(runs, r, [r EXCEPT !.pc = "awaitPut", !.put = TRUE])
  /\ UNCHANGED << hasViewedOnboardingStory, envVars, busVars, cleanupCalls, msgVars, now >>

\* Lines 122-134: every add() has resolved; 'change' is triggered and the
\* id-list is put.
BatchResolve(r) ==
  /\ r.pc = "awaitBatch"
  /\ r.saved = DOMAIN r.storyMessages
  /\ existingOnboardingStoryMessageIds' =
       << [i \in DOMAIN r.storyMessages |-> r.storyMessages[i].id] >>
  /\ putCount' = putCount + 1
  /\ runs' = Replace(runs, r, [r EXCEPT !.pc = "awaitPut", !.put = TRUE])
  /\ UNCHANGED << hasViewedOnboardingStory, envVars, busVars, cleanupCalls, msgVars, now >>

\* Variant: the id-list is put in a finally block, also when add() rejects.
BatchFail_Finally(r) ==
  /\ r.pc = "awaitBatch"
  /\ r.saved # DOMAIN r.storyMessages
  /\ existingOnboardingStoryMessageIds' =
       << [i \in DOMAIN r.storyMessages |-> r.storyMessages[i].id] >>
  /\ putCount' = putCount + 1
  /\ runs' = Replace(runs, r, Abort([r EXCEPT !.put = TRUE], "batch"))
  /\ UNCHANGED << hasViewedOnboardingStory, envVars, busVars, cleanupCalls, msgVars, now >>

\* One add() rejects, after any subset of the batch was written.
BatchFail(r) ==
  /\ r.pc = "awaitBatch"
  /\ r.saved # DOMAIN r.storyMessages
  /\ runs' = Replace(runs, r, Abort(r, "batch"))
  /\ UNCHANGED << storageVars, envVars, busVars, cleanupCalls, msgVars, now >>

\* Variant: a freshly stored story is marked as not viewed.
PutResolve_ResetsViewed(r) ==
  /\ r.pc = "awaitPut"
  /\ hasViewedOnboardingStory' = FALSE
  /\ runs' = Replace(runs, r, Ended(r, "done", "done"))
  /\ UNCHANGED << existingOnboardingStoryMessageIds, putCount, envVars, busVars,
                  cleanupCalls, msgVars, now >>

\* Lines 131-136: the put resolves; the run logs 'done'.
PutResolve(r) ==
  /\ r.pc = "awaitPut"
  /\ runs' = Replace(runs, r, Ended(r, "done", "done"))
  /\ UNCHANGED << storageVars, envVars, busVars, cleanupCalls, msgVars, now >>

\* ------------------------------------------------------------- environment

\* The sync, or the mark-viewed flow, sets the flag.
MarkViewed ==
  /\ ~hasViewedOnboardingStory
  /\ hasViewedOnboardingStory' = TRUE
  /\ UNCHANGED << existingOnboardingStoryMessageIds, putCount, envVars, busVars,
                  cleanupCalls, runs, msgVars, now >>

\* window.textsecure.server gets initialized.
InitServer ==
  /\ ~server
  /\ server' = TRUE
  /\ UNCHANGED << storageVars, userLocale, busVars, cleanupCalls, runs, msgVars, now >>

\* Time passes.
Tick ==
  /\ now < MaxClock
  /\ now' = now + 1
  /\ UNCHANGED << storageVars, envVars, busVars, cleanupCalls, runs, msgVars >>

Next ==
  \/ DownloadOnboardingStory
  \/ SyncComplete
  \/ \E r \in BagToSet(runs) : ManifestResolve(r)
  \/ \E r \in BagToSet(runs) : ManifestFail(r)
  \/ \E r \in BagToSet(runs) : DownloadResolve(r)
  \/ \E r \in BagToSet(runs) : DownloadFail(r)
  \/ \E r \in BagToSet(runs) : IngestResolve(r)
  \/ \E r \in BagToSet(runs) : IngestFail(r)
  \/ \E r \in BagToSet(runs) : ConversationResolve(r)
  \/ \E r \in BagToSet(runs) : BatchPersistOne(r)
  \/ \E r \in BagToSet(runs) : BatchResolve(r)
  \/ \E r \in BagToSet(runs) : BatchFail(r)
  \/ \E r \in BagToSet(runs) : PutResolve(r)
  \/ MarkViewed
  \/ InitServer
  \/ Tick

Spec == Init /\ [][Next]_vars
\* ------------------------------------------------------------ happy path
\* The runs in which the flag stays false, the server is initialized from
\* the start and every collaborator call resolves: no await rejects and the
\* manifest has a list for the locale or for "en".  An await that resolves
\* resumes the run, and the sync job that was triggered completes.

HappyInit == Init /\ ~hasViewedOnboardingStory /\ server

HappyManifestResolve(r) ==
  /\ ManifestResolve(r)
  /\ \A q \in BagToSet(runs') : q.pc = "awaitDownload" => q.filenamesDefined

HappyNext ==
  \/ DownloadOnboardingStory
  \/ SyncComplete
  \/ \E r \in BagToSet(runs) : HappyManifestResolve(r)
  \/ \E r \in BagToSet(runs) : DownloadResolve(r)
  \/ \E r \in BagToSet(runs) : IngestResolve(r)
  \/ \E r \in BagToSet(runs) : ConversationResolve(r)
  \/ \E r \in BagToSet(runs) : BatchPersistOne(r)
  \/ \E r \in BagToSet(runs) : BatchResolve(r)
  \/ \E r \in BagToSet(runs) : PutResolve(r)
  \/ Tick

HappyFairness ==
  /\ WF_vars(SyncComplete)
  /\ WF_vars(\E r \in BagToSet(runs) : HappyManifestResolve(r))
  /\ WF_vars(\E r \in BagToSet(runs) : DownloadResolve(r))
  /\ WF_vars(\E r \in BagToSet(runs) : IngestResolve(r))
  /\ WF_vars(\E r \in BagToSet(runs) : ConversationResolve(r))
  /\ WF_vars(\E r \in BagToSet(runs) : BatchPersistOne(r))
  /\ WF_vars(\E r \in BagToSet(runs) : BatchResolve(r))
  /\ WF_vars(\E r \in BagToSet(runs) : PutResolve(r))

HappySpec == HappyInit /\ [][HappyNext]_vars /\ HappyFairness

\* ================================================================ claims

RunSet == BagToSet(runs)
NumRuns == BagCardinality(runs)

\* How many runs have handed their messages to saveNewMessageBatcher.
NumHanded == BagCardinality([r \in { x \in RunSet : x.handed } |-> runs[r]])

IdsSet == existingOnboardingStoryMessageIds # <<>>

\* A step that is a call of downloadOnboardingStory / a syncComplete event.
IsCall == calls' = calls + 1
IsSyncComplete == syncEvents' = syncEvents + 1

\* C1: whatever the calls and the interleaving of syncComplete events with
\* the runs' awaits, at most one batch of story messages is ever handed to
\* saveNewMessageBatcher.
C1_AtMostOneBatch == NumHanded <= 1

\* C2: a run that starts when existingOnboardingStoryMessageIds is set ends
\* at once: it fetches no manifest, requests no download, hands no message
\* to the batcher, has no message written and puts no storage key.
C2_IdempotentAfterCommit ==
  \A r \in RunSet :
    r.idsSetAtStart =>
      /\ r.pc \in {"done", "failed"}
      /\ ~r.fetched /\ ~r.downloadRequested
      /\ ~r.handed /\ ~r.wrote /\ ~r.put

C2_Witness ==
  \E r \in RunSet : r.idsSetAtStart /\ r.outcome = "hasIds"

\* C3: a call of downloadOnboardingStory made while hasViewedOnboardingStory
\* is true invokes the cleanup exactly once and does nothing else: no sync
\* job, no listener, no run, no message built, no storage key written.
C3_ViewedCallOnlyCleans ==
  [][ (IsCall /\ hasViewedOnboardingStory) =>
        /\ cleanupCalls' = cleanupCalls + 1
        /\ UNCHANGED << syncJobs, listeners, runs, storageVars,
                        uuidCounter, messageCounter >> ]_vars

C3_Witness ==
  calls = 2 /\ cleanupCalls = 2 /\ syncEvents = 0 /\ syncJobs = 0

\* C4: a call of downloadOnboardingStory made while hasViewedOnboardingStory
\* is false triggers one sync job and registers one listener and does no
\* download work itself; a run only ever starts in a syncComplete step that
\* had a listener pending.
C4_CallOnlyRegisters ==
  [][ /\ (IsCall /\ ~hasViewedOnboardingStory) =>
            /\ syncJobs' = syncJobs + 1
            /\ listeners' = listeners + 1
            /\ UNCHANGED << runs, cleanupCalls, db, storageVars,
                            uuidCounter, messageCounter >>
      /\ (BagCardinality(runs') > NumRuns) => (IsSyncComplete /\ listeners > 0) ]_vars

C4_Witness ==
  calls = 2 /\ syncJobs = 2 /\ listeners = 1 /\ NumRuns = 1

\* C5: every registered listener leads to exactly one run: listeners that
\* have not fired plus runs started equal the registrations made, and a
\* syncComplete event leaves no listener pending.
C5_OneRunPerListener ==
  /\ [](NumRuns + listeners = syncJobs)
  /\ [][ IsSyncComplete => listeners' = 0 ]_vars

C5_Witness ==
  syncEvents = 2 /\ syncJobs = 1 /\ NumRuns = 1 /\ listeners = 0

\* C6 as stated: a syncComplete event with at least one listener pending
\* starts exactly one run, however many calls registered a listener.
C6_OneRunPerSync ==
  [][ (IsSyncComplete /\ listeners >= 1) => BagCardinality(runs') = NumRuns + 1 ]_vars

\* C6 amended: a syncComplete event starts one run per call that registered
\* a listener since the previous event: k such calls start k runs.
C6_OneRunPerCall ==
  [][ IsSyncComplete => BagCardinality(runs') = syncJobs ]_vars

C6_Witness ==
  syncEvents = 1 /\ syncJobs = 2 /\ NumRuns = 2

\* C7: in every reachable state either story messages are persisted and
\* existingOnboardingStoryMessageIds is set, or neither.
C7_MessagesIffIdList == (db # {}) <=> IdsSet

\* C8: a run that fails at the manifest fetch, the image download or an
\* attachment ingestion has handed no message to the batcher, has had no
\* message written and has not put the id-list.
C8_NoPartialCommit ==
  \A r \in RunSet :
    r.outcome \in {"manifest", "download", "ingest"} =>
      ~r.handed /\ ~r.wrote /\ ~r.put

C8_Witness ==
  /\ \E r \in RunSet : r.outcome = "manifest"
  /\ \E r \in RunSet : r.outcome = "ingest"

\* C9: a run whose batched write fails, after any subset of its messages
\* was written, has ended without putting the id-list; if the id-list is
\* set, another run put it.
C9_BatchFailureNoIdList ==
  \A r \in RunSet :
    r.outcome = "batch" =>
      /\ r.pc = "failed" /\ ~r.put
      /\ IdsSet => \E q \in RunSet : q.put

C9_Witness ==
  \E r \in RunSet : r.outcome = "batch" /\ r.wrote /\ ~IdsSet /\ db # {}

\* C10: storage.put of existingOnboardingStoryMessageIds happens at most
\* once, so a value once stored is never replaced.
C10_PutAtMostOnce == putCount <= 1
\* The story of a run with N images is stored: exactly its N messages are
\* persisted, each an unread, unseen story without replies, and the id-list
\* holds exactly their N ids.
StoryStored ==
  \E r \in RunSet :
    /\ r.pc = "awaitPut"
    /\ Len(r.storyMessages) = Len(r.imageFilenames)
    /\ db = Range(r.storyMessages)
    /\ Cardinality(db) = Len(r.imageFilenames)
    /\ \A m \in db : /\ m.type = "story" /\ m.readStatus = "Unread"
                     /\ m.seenStatus = "Unseen" /\ m.canReplyToStory = FALSE
    /\ existingOnboardingStoryMessageIds =
         << [i \in DOMAIN r.storyMessages |-> r.storyMessages[i].id] >>
    /\ Len(existingOnboardingStoryMessageIds[1]) = Len(r.imageFilenames)

\* C11: on the happy path, once downloadOnboardingStory has been called
\* (once) and a syncComplete event is still to come, the story gets stored:
\* N messages persisted and an id-list of N entries.
C11_HappyPathCompletes ==
  (calls = 1 /\ listeners = 1 /\ syncEvents < MaxSyncs) ~> (calls > 1 \/ StoryStored)

C11_Witness == calls = 1 /\ StoryStored /\ Cardinality(db) = 2

\* How many runs of the bag b failed at the manifest fetch or the download.
TransportFailures(b) ==
  BagCardinality([r \in { x \in BagToSet(b) : x.outcome \in {"manifest", "download"} }
                    |-> b[r]])

\* A run as it is right after it called getOnboardingStoryManifest, with
\* the flag false and no id-list.
FreshRun == [NewRun EXCEPT !.pc = "awaitManifest", !.fetched = TRUE]

\* C12: a transport failure writes no storage key and no message, and with
\* a failed run behind it a later call and syncComplete event (flag still
\* false, no id-list) start a run that fetches the manifest from scratch.
C12_RetryAfterTransportFailure ==
  [][ /\ (TransportFailures(runs') > TransportFailures(runs)) =>
            UNCHANGED << storageVars, db >>
      /\ ( /\ IsSyncComplete /\ TransportFailures(runs) > 0 /\ listeners > 0
           /\ server /\ ~hasViewedOnboardingStory /\ ~IdsSet ) =>
            CopiesIn(FreshRun, runs') = CopiesIn(FreshRun, runs) + listeners ]_vars

C12_Witness ==
  /\ TransportFailures(runs) = 1 /\ CopiesIn(FreshRun, runs) = 1
  /\ NumRuns = 2 /\ syncEvents = 2 /\ listeners = 0 /\ ~IdsSet
  /\ ~hasViewedOnboardingStory

\* C13: hasViewedOnboardingStory never goes from true to false, and no
\* step of the entry point or of a run changes it: a step that changes it
\* changes nothing of the workflow.
C13_FlagNeverWritten ==
  [][ /\ hasViewedOnboardingStory => hasViewedOnboardingStory'
      /\ (hasViewedOnboardingStory' # hasViewedOnboardingStory) =>
            UNCHANGED << existingOnboardingStoryMessageIds, putCount, busVars,
                         cleanupCalls, runs, msgVars >> ]_vars

C13_Witness ==
  /\ hasViewedOnboardingStory
  /\ \E r \in RunSet : r.outcome = "done" /\ ~r.viewedAtStart
  /\ calls = MaxCalls

\* C14: a run that starts with the flag true (and the server initialized)
\* invokes the cleanup once and ends: no manifest fetch, no download, no
\* message handed or written, no id-list put, with or without an id-list.
C14_ViewedRunOnlyCleans ==
  /\ [](\A r \in RunSet :
          r.viewedAtStart =>
            /\ r.outcome \in {"cleanup", "assert"} /\ r.pc \in {"done", "failed"}
            /\ ~r.fetched /\ ~r.downloadRequested
            /\ ~r.handed /\ ~r.wrote /\ ~r.put)
  /\ [][ (IsSyncComplete /\ hasViewedOnboardingStory /\ server) =>
            /\ cleanupCalls' = cleanupCalls + listeners
            /\ UNCHANGED storageVars ]_vars

C14_Witness ==
  \E r \in RunSet : r.outcome = "cleanup" /\ r.idsSetAtStart

\* C15: a run that starts while the server is not initialized fails the
\* assertion and does nothing else: no cleanup even with the flag true, no
\* fetch, no message, no storage write.
C15_AssertFirst ==
  /\ [](\A r \in RunSet :
          r.outcome = "assert" =>
            /\ r.pc = "failed"
            /\ ~r.fetched /\ ~r.downloadRequested
            /\ ~r.handed /\ ~r.wrote /\ ~r.put)
  /\ [][ (IsSyncComplete /\ ~server) =>
            /\ UNCHANGED << cleanupCalls, storageVars, db >>
            /\ \A r \in BagToSet(runs') :
                 CopiesIn(r, runs') > CopiesIn(r, runs) => r.outcome = "assert" ]_vars

C15_Witness ==
  /\ \E r \in RunSet : r.outcome = "assert" /\ r.viewedAtStart
  /\ cleanupCalls = 0

\* C16: the messages a run builds have the timestamps base, base+1, ...
\* for one base, message i carries the attachment made from image i, and
\* the id-list the run puts lists the ids in that order.
C16_TimestampsFromOneBase ==
  \A r \in RunSet :
    r.pc \in {"awaitBatch", "awaitPut"} =>
      /\ Len(r.storyMessages) = Len(r.imageBuffers)
      /\ \A i \in DOMAIN r.storyMessages :
           /\ r.storyMessages[i].timestamp = r.storyMessages[1].timestamp + (i - 1)
           /\ r.storyMessages[i].attachments =
                << ProcessNewAttachment(r.imageBuffers[i]) >>
      /\ (r.pc = "awaitPut" /\ putCount = 1) =>
           existingOnboardingStoryMessageIds =
             << [i \in DOMAIN r.storyMessages |-> r.storyMessages[i].id] >>

\* C17: the filename list a run requests is the manifest's list for the
\* locale when the manifest has one, else its "en" list (undefined when it
\* has neither), and the request carries the manifest's version.
C17_LocaleResolution ==
  \A r \in RunSet :
    r.manifest # 0 =>
      LET languages == Manifests[r.manifest].languages
      IN  /\ r.downloadRequested
          /\ r.version = Manifests[r.manifest].version
          /\ userLocale \in DOMAIN languages =>
               r.filenamesDefined /\ r.imageFilenames = languages[userLocale]
          /\ (userLocale \notin DOMAIN languages /\ "en" \in DOMAIN languages) =>
               r.filenamesDefined /\ r.imageFilenames = languages["en"]
          /\ (userLocale \notin DOMAIN languages /\ "en" \notin DOMAIN languages) =>
               ~r.filenamesDefined

C17_Witness ==
  /\ userLocale = "de"
  /\ \E r \in RunSet : r.manifest = 1 /\ r.imageFilenames = <<"a", "b">>
  /\ \E r \in RunSet : r.manifest = 2 /\ ~r.filenamesDefined

\* C18: when the id-list is put, every id it lists is the id of a message
\* already in the database; and a run hands no message to the batcher
\* before its ingestions have resolved.
C18_IdListLast ==
  /\ [][ (putCount' # putCount) =>
            /\ existingOnboardingStoryMessageIds' # <<>>
            /\ Range(existingOnboardingStoryMessageIds'[1]) \subseteq { m.id : m \in db } ]_vars
  /\ [](\A r \in RunSet :
          /\ r.pc \in {"awaitManifest", "awaitDownload", "awaitIngest", "awaitConversation"}
               => ~r.handed /\ ~r.wrote /\ ~r.put
          /\ r.pc = "awaitBatch" => Len(r.storyMessages) = Len(r.attachments) /\ ~r.put
          /\ r.put => r.wrote)

C18_Witness ==
  /\ IdsSet
  /\ \E r \in RunSet :
       /\ r.pc = "awaitPut" /\ Len(r.storyMessages) = 2
       /\ existingOnboardingStoryMessageIds[1] =
            [i \in DOMAIN r.storyMessages |-> r.storyMessages[i].id]

\* C19: when every started run has ended without error and no cleanup has
\* run, every persisted story message has its id in the id-list.
C19_NoOrphansAtQuiescence ==
  ( /\ NumRuns > 0
    /\ \A r \in RunSet : r.pc = "done"
    /\ cleanupCalls = 0 ) =>
      \A m \in db : IdsSet /\ m.id \in Range(existingOnboardingStoryMessageIds[1])

\* C20: no step persists a story message or writes the id-list while
\* hasViewedOnboardingStory is true.
C20_NothingStoredOnceViewed ==
  [][ hasViewedOnboardingStory =>
        /\ db' \subseteq db
        /\ UNCHANGED existingOnboardingStoryMessageIds ]_vars
====
